---------------------------- MODULE Spec2Model ----------------------------
(***************************************************************************)
(* The supervisor (networkMonitor.cpp) and its workers (intfMonitor.cpp)   *)
(* as one state machine.  The supervisor is a single-threaded process; its *)
(* position is pc.  Each worker is a process of its own (wpc).  Besides    *)
(* the spawned workers, any local process can connect to the socket path:  *)
(* these are the foreign peers.  Signals are delivered between the steps   *)
(* of the process that receives them.                                      *)
(***************************************************************************)
EXTENDS Integers, Sequences, FiniteSets, TLC

(* ------------------------------ bounds --------------------------------- *)
\* largest number of interfaces the operator enters at the prompt
MaxInterfaces == 2
\* number of processes other than the spawned workers that may connect
NumForeign == 1
\* number of SIGINT deliveries to the supervisor
MaxSigint == 2
\* messages a connection holds unread; further bytes coalesce with the last
MaxPending == 1
\* messages a foreign peer writes before it falls silent
MaxForeignSends == 1

(* --------------------------- program constants ------------------------- *)
MAX_CONNECTIONS == 2
\* socket() returns the lowest free descriptor: 0, 1, 2 are the standard streams
FirstFd == 3

\* A byte stream is a sequence of symbols: a fixed text, or the NUL byte.
READY == "ready_to_monitor"
START == "start_monitoring"
HELLO == "hello"
REPORT == "report"
NUL == "NUL"

Workers == 1..MaxInterfaces
Foreign == (MaxInterfaces + 1)..(MaxInterfaces + NumForeign)
Peers == Workers \cup Foreign
NumPeers == MaxInterfaces + NumForeign
NoPeer == 0
\* descriptors accept() can return, and the slots a store can reach
ClientFdRange == (FirstFd + 1)..(FirstFd + NumPeers)
SlotRange == 0..(NumPeers - 1)
\* content of a clientFds element that was never stored
Unset == -2

VARIABLES
  \* ---- supervisor (networkMonitor.cpp) ----
  pc,               \* position of the supervisor in main / cleanup
  g_isRunning,      \* the running flag
  numInterfaces,    \* number entered at the prompt
  spawnIdx,         \* position of startMonitoring's loop
  g_childProcesses, \* pids pushed by startMonitoring
  srv,              \* listening socket: "none" | "bound" | "listening" | "closed"
  pathExists,       \* the socket path exists in the file system
  serverFd,
  maxFd,
  masterSet,
  readSet,          \* assigned at the top of each iteration; empty between iterations
  clientFds,        \* slot -> descriptor (-1 after a peer close)
  activeClients,
  idx,              \* loop variable of the for loops (0 while none is running)
  fdTable,          \* open descriptors of the supervisor: fd -> peer
  exitStatus,       \* "none" | "success" | "failure" | "killed"
  result,           \* the status cleanup's caller will return
  \* ---- workers (intfMonitor.cpp) and foreign peers ----
  wpc,              \* position of each worker
  wstatus,          \* how an exited, not yet reaped worker ended: "success" | "failure" | "signal"
  g_isActive,       \* each worker's flag
  conn,             \* connection of a peer: "none" | "pending" | "accepted" | "supclosed"
  peerOpen,         \* the peer's end of its connection is open
  backlog,          \* connections waiting for accept(), oldest first
  toSup,            \* unread bytes peer -> supervisor, as messages
  toPeer,           \* unread bytes supervisor -> peer
  sockErr,          \* ECONNRESET pending on the supervisor's end
  fSends,           \* messages each foreign peer has written
  \* ---- history (not program state) ----
  sigints,          \* SIGINT deliveries so far
  hist              \* record of counters, see InitHist

vars == <<pc, g_isRunning, numInterfaces, spawnIdx, g_childProcesses, srv,
          pathExists, serverFd, maxFd, masterSet, readSet, clientFds,
          activeClients, idx, fdTable, exitStatus, result, wpc, wstatus,
          g_isActive, conn, peerOpen, backlog, toSup, toPeer, sockErr,
          fSends, sigints, hist>>

supVars == <<pc, g_isRunning, spawnIdx, g_childProcesses, srv, pathExists,
             serverFd, maxFd, masterSet, readSet, clientFds, activeClients,
             idx, fdTable, exitStatus, result>>
peerVars == <<wpc, wstatus, g_isActive, conn, peerOpen, backlog, toSup, toPeer, sockErr,
              fSends>>

(* ------------------------------ helpers -------------------------------- *)
Max(a, b) == IF a >= b THEN a ELSE b

RECURSIVE Flatten(_)
\* the bytes a read returns when the messages of q are queued
Flatten(q) == IF q = <<>> THEN <<>> ELSE Head(q) \o Flatten(Tail(q))

RECURSIVE CString(_)
\* buffer[bytesRead] = '\0' and the use of the buffer as a C string: the bytes
\* before the first NUL
CString(buf) ==
  IF buf = <<>> \/ Head(buf) = NUL THEN <<>>
  ELSE <<Head(buf)>> \o CString(Tail(buf))

\* mutant: any non-empty message is taken for the token
HandshakeMatches_AnyText(buf) == CString(buf) # <<>>

\* strcmp(buffer, "ready_to_monitor") == 0
HandshakeMatches(buf) == CString(buf) = <<READY>>

\* mutant: whatever was read is taken for the reply
ReplyMismatch_Never(buf) == FALSE

\* strcmp(buffer, "start_monitoring") != 0
ReplyMismatch(buf) == CString(buf) # <<START>>

\* snprintf(buffer, ..., "start_monitoring"); write(..., strlen(buffer) + 1)
StartReply == <<START, NUL>>

\* write(socket, "ready_to_monitor", 16)
ReadyMessage == <<READY>>

\* the messages a foreign peer may write: some other text, or the token, its
\* terminating NUL and more bytes
ForeignMsgs == {<<HELLO>>, <<READY, NUL, HELLO>>}

\* a write on a connection: the bytes queue up; beyond MaxPending unread
\* messages they coalesce with the last one
Enqueue(q, m) == IF Len(q) < MaxPending THEN Append(q, m) ELSE q

IsOpen(fd) ==
  \/ fd = serverFd /\ srv \in {"bound", "listening"}
  \/ fd \in ClientFdRange /\ fdTable[fd] # NoPeer

\* the lowest free descriptor, as accept() returns it
LowestFree ==
  CHOOSE fd \in ClientFdRange :
    /\ fdTable[fd] = NoPeer
    /\ \A g \in ClientFdRange : g < fd => fdTable[g] # NoPeer

\* a descriptor select() reports readable
Readable(fd) ==
  \/ fd = serverFd /\ srv = "listening" /\ backlog # <<>>
  \/ /\ fd \in ClientFdRange
     /\ fdTable[fd] # NoPeer
     /\ LET p == fdTable[fd] IN
          toSup[p] # <<>> \/ ~peerOpen[p] \/ sockErr[p]

\* select(maxFd + 1, &readSet, ...): the descriptors it examines
Watched == {fd \in readSet : fd <= maxFd}

\* children of the supervisor that wait() can still report
Children == {w \in Workers : wpc[w] \notin {"unspawned", "reaped"}}
Zombies == {w \in Workers : wpc[w] = "zombie"}

Running(w) == wpc[w] \notin {"unspawned", "zombie", "reaped"}

(* ------------------------------- Init ---------------------------------- *)
InitHist ==
  [ stored   |-> {},                       \* slot indices stored into
    sent     |-> [p \in Peers |-> <<>>],   \* what the supervisor wrote to p
    closes   |-> [p \in Peers |-> 0],      \* close() calls on p's descriptor
    stale    |-> 0,                        \* close() of a descriptor >= 0 that is not open
    srvCloses |-> 0,                       \* close() calls on the listening socket
    kills    |-> [w \in Workers |-> 0],    \* SIGUSR1 sent to w
    reaps    |-> [w \in Workers |-> 0],    \* times wait() returned w
    cleanups |-> 0,                        \* entries into cleanup
    polls    |-> 0,                        \* select() calls begun with the flag false
    eintrs   |-> 0,                        \* select() calls that failed with EINTR
    hardErrors |-> 0,                      \* select() calls that failed with another error
    rejected |-> {},                       \* peers whose handshake bytes did not match
    eofFds   |-> {},                       \* descriptors closed after a read of 0 bytes
    forked   |-> {} ]                      \* workers fork() created

Init ==
  /\ pc = "createServerSocket"
  /\ g_isRunning = TRUE
  /\ numInterfaces \in 0..MaxInterfaces
  /\ spawnIdx = 0
  /\ g_childProcesses = <<>>
  /\ srv = "none"
  /\ pathExists = FALSE
  /\ serverFd = -1
  /\ maxFd = -1
  /\ masterSet = {}
  /\ readSet = {}
  /\ clientFds = [s \in SlotRange |-> Unset]
  /\ activeClients = 0
  /\ idx = 0
  /\ fdTable = [fd \in ClientFdRange |-> NoPeer]
  /\ exitStatus = "none"
  /\ result = "success"
  /\ wpc = [w \in Workers |-> "unspawned"]
  /\ wstatus = [w \in Workers |-> "none"]
  /\ g_isActive = [w \in Workers |-> TRUE]
  /\ conn = [p \in Peers |-> "none"]
  /\ peerOpen = [p \in Peers |-> FALSE]
  /\ backlog = <<>>
  /\ toSup = [p \in Peers |-> <<>>]
  /\ toPeer = [p \in Peers |-> <<>>]
  /\ sockErr = [p \in Peers |-> FALSE]
  /\ fSends = [f \in Foreign |-> 0]
  /\ sigints = 0
  /\ hist = InitHist

(* --------------------- effects shared by the actions ------------------- *)
\* close(fd) in the supervisor: what it does to the descriptor table, to the
\* connection behind fd and to the count of close() calls
FdTableAfterClose(fd) ==
  IF fd \in ClientFdRange THEN [fdTable EXCEPT ![fd] = NoPeer] ELSE fdTable

ConnAfterClose(fd) ==
  IF fd \in ClientFdRange /\ fdTable[fd] # NoPeer
  THEN [conn EXCEPT ![fdTable[fd]] = "supclosed"]
  ELSE conn

HistAfterClose(h, fd) ==
  IF fd \in ClientFdRange /\ fdTable[fd] # NoPeer
  THEN [h EXCEPT !.closes[fdTable[fd]] = @ + 1]
  ELSE IF fd >= 0 THEN [h EXCEPT !.stale = @ + 1] ELSE h

\* the supervisor process is gone without cleanup (killed by a signal): the
\* kernel closes all its descriptors; the socket path stays
ProcessKilled ==
  /\ pc' = "killed"
  /\ exitStatus' = "killed"
  /\ srv' = IF srv = "none" THEN "none" ELSE "closed"
  /\ fdTable' = [fd \in ClientFdRange |-> NoPeer]
  /\ conn' = [p \in Peers |->
               IF conn[p] \in {"pending", "accepted"} THEN "supclosed" ELSE conn[p]]
  /\ backlog' = <<>>

\* a peer's end goes away (close or process exit): unread bytes sent to it
\* become a pending ECONNRESET on the supervisor's end
SockErrAfterPeerClose(p) ==
  [sockErr EXCEPT ![p] = @ \/ (conn[p] = "accepted" /\ toPeer[p] # <<>>)]

(* ------------------------ supervisor: startup -------------------------- *)
\* createServerSocket() and main's initialisation of the descriptor sets
createServerSocket ==
  /\ pc = "createServerSocket"
  /\ \E ok \in BOOLEAN :
       IF ok
       THEN /\ srv' = "bound"
            /\ pathExists' = TRUE
            /\ serverFd' = FirstFd
            /\ maxFd' = FirstFd
            /\ masterSet' = {FirstFd}
            /\ activeClients' = 0
            /\ pc' = "startMonitoring"
            /\ UNCHANGED exitStatus
       ELSE /\ pc' = "exited"
            /\ exitStatus' = "failure"
            /\ UNCHANGED <<srv, pathExists, serverFd, maxFd, masterSet, activeClients>>
  /\ UNCHANGED <<g_isRunning, numInterfaces, spawnIdx, g_childProcesses, readSet,
                 clientFds, idx, fdTable, result, sigints, hist>>
  /\ UNCHANGED peerVars

\* the handle set after spawnInterfaceMonitor returned pid for worker w
HandlesAfterSpawn(handles, w, pid) ==
  IF pid > 0 THEN Append(handles, w) ELSE handles

\* one iteration of startMonitoring's loop: fork() succeeds (pid > 0) or fails
startMonitoring ==
  /\ pc = "startMonitoring"
  /\ IF spawnIdx < numInterfaces
     THEN \E pid \in {-1, 1} :
            LET w == spawnIdx + 1 IN
            /\ spawnIdx' = spawnIdx + 1
            /\ g_childProcesses' = HandlesAfterSpawn(g_childProcesses, w, pid)
            /\ wpc' = IF pid > 0 THEN [wpc EXCEPT ![w] = "forked"] ELSE wpc
            /\ hist' = IF pid > 0 THEN [hist EXCEPT !.forked = @ \cup {w}] ELSE hist
            /\ UNCHANGED <<pc, idx>>
     ELSE /\ pc' = "listen"
          /\ UNCHANGED <<spawnIdx, g_childProcesses, wpc, hist, idx>>
  /\ UNCHANGED <<g_isRunning, numInterfaces, srv, pathExists, serverFd, maxFd,
                 masterSet, readSet, clientFds, activeClients, fdTable,
                 exitStatus, result, sigints>>
  /\ UNCHANGED <<wstatus, g_isActive, conn, peerOpen, backlog, toSup, toPeer,
                 sockErr, fSends>>

\* listen(serverFd, MAX_CONNECTIONS)
main_listen ==
  /\ pc = "listen"
  /\ \E ok \in BOOLEAN :
       IF ok
       THEN /\ srv' = "listening"
            /\ pc' = "loop"
            /\ UNCHANGED <<result, idx, hist>>
       ELSE /\ pc' = "cleanup_kill"
            /\ idx' = 1
            /\ result' = "failure"
            /\ hist' = [hist EXCEPT !.cleanups = @ + 1]
            /\ UNCHANGED srv
  /\ UNCHANGED <<g_isRunning, numInterfaces, spawnIdx, g_childProcesses,
                 pathExists, serverFd, maxFd, masterSet, readSet, clientFds,
                 activeClients, fdTable, exitStatus, sigints>>
  /\ UNCHANGED peerVars

(* ------------------------ supervisor: main loop ------------------------ *)
\* while (g_isRunning): the position after the test
AfterLoopTest(running) == IF running THEN "select_call" ELSE "cleanup_kill"

\* while (g_isRunning) { readSet = masterSet; ...
main_loop ==
  /\ pc = "loop"
  /\ pc' = AfterLoopTest(g_isRunning)
  /\ IF pc' = "select_call"
     THEN /\ readSet' = masterSet
          /\ UNCHANGED <<idx, result, hist>>
     ELSE /\ idx' = 1
          /\ result' = "success"
          /\ hist' = [hist EXCEPT !.cleanups = @ + 1]
          /\ UNCHANGED readSet
  /\ UNCHANGED <<g_isRunning, numInterfaces, spawnIdx, g_childProcesses, srv,
                 pathExists, serverFd, maxFd, masterSet, clientFds,
                 activeClients, fdTable, exitStatus, sigints>>
  /\ UNCHANGED peerVars

\* select() fails at once with EBADF when a watched descriptor is not open;
\* errno is not EINTR, so the loop is left (break)
SelectFailsEBADF == \E fd \in Watched : ~IsOpen(fd)

\* mutant: every failure of select, EINTR too, leaves the loop
AfterSelectError_AlwaysBreak(errno) == "cleanup_kill"

\* if (result < 0) { if (errno == EINTR) continue; ...; break; }
AfterSelectError(errno) == IF errno = "EINTR" THEN "loop" ELSE "cleanup_kill"

\* entry into select(maxFd + 1, &readSet, ...)
main_selectCall ==
  /\ pc = "select_call"
  /\ pc' = IF SelectFailsEBADF THEN AfterSelectError("EBADF") ELSE "select_wait"
  /\ IF pc' = "cleanup_kill"
     THEN /\ idx' = 1
          /\ result' = "success"
          /\ readSet' = {}
          /\ hist' = [hist EXCEPT !.cleanups = @ + 1,
                                  !.hardErrors = @ + 1,
                                  !.polls = IF g_isRunning THEN @ ELSE @ + 1]
     ELSE /\ hist' = [hist EXCEPT !.polls = IF g_isRunning THEN @ ELSE @ + 1]
          /\ UNCHANGED <<idx, result, readSet>>
  /\ UNCHANGED <<g_isRunning, numInterfaces, spawnIdx, g_childProcesses, srv,
                 pathExists, serverFd, maxFd, masterSet, clientFds,
                 activeClients, fdTable, exitStatus, sigints>>
  /\ UNCHANGED peerVars

\* mutant: the test is the other way round, ready connections come first
Dispatch_ClientsFirst(ready) ==
  IF ready \ {serverFd} # {} THEN "process" ELSE "accept"

\* if (FD_ISSET(serverFd, &readSet)) handleNewConnection else processMonitorData
Dispatch(ready) == IF serverFd \in ready THEN "accept" ELSE "process"

\* select() returns the ready descriptors, and main dispatches; readSet is
\* read again only by processMonitorData
main_selectReturn ==
  /\ pc = "select_wait"
  /\ LET ready == {fd \in Watched : Readable(fd)} IN
       /\ ready # {}
       /\ pc' = Dispatch(ready)
       /\ readSet' = IF pc' = "process" THEN ready ELSE {}
       /\ idx' = 0
  /\ UNCHANGED <<g_isRunning, numInterfaces, spawnIdx, g_childProcesses, srv,
                 pathExists, serverFd, maxFd, masterSet, clientFds,
                 activeClients, fdTable, exitStatus, result, sigints, hist>>
  /\ UNCHANGED peerVars

(* --------------------- supervisor: handleNewConnection ----------------- *)
\* int clientFds[MAX_CONNECTIONS]: the indices the array has
SlotInBounds(slot) == slot >= 0 /\ slot < MAX_CONNECTIONS

\* A store to clientFds[slot] with slot out of bounds is undefined.  Either
\* the store lands in memory no variable of this model occupies and later
\* accesses to the same index find it ("spill"), or the process is stopped at
\* the store ("trap").
OobOutcomes == {"spill", "trap"}

\* clientFds[activeClients] = accept(...); FD_SET(clientFds[activeClients], &masterSet)
handleNewConnection_accept ==
  /\ pc = "accept"
  /\ hist' = [hist EXCEPT !.stored = @ \cup {activeClients}]
  /\ \E how \in (IF SlotInBounds(activeClients) THEN {"defined"} ELSE OobOutcomes),
        ok \in BOOLEAN :
       IF how = "trap"
       THEN /\ ProcessKilled
            /\ UNCHANGED <<clientFds, masterSet>>
       ELSE IF ok /\ backlog # <<>>
       THEN LET p == Head(backlog)
                fd == LowestFree
            IN  /\ clientFds' = [clientFds EXCEPT ![activeClients] = fd]
                /\ fdTable' = [fdTable EXCEPT ![fd] = p]
                /\ conn' = [conn EXCEPT ![p] = "accepted"]
                /\ backlog' = Tail(backlog)
                /\ masterSet' = masterSet \cup {fd}
                /\ pc' = "hs_call"
                /\ UNCHANGED <<exitStatus, srv>>
       ELSE /\ clientFds' = [clientFds EXCEPT ![activeClients] = -1]
            /\ pc' = "loop"
            /\ UNCHANGED <<fdTable, conn, backlog, masterSet, exitStatus, srv>>
  /\ UNCHANGED <<g_isRunning, numInterfaces, spawnIdx, g_childProcesses,
                 pathExists, serverFd, maxFd, readSet, activeClients, idx,
                 result, sigints>>
  /\ UNCHANGED <<wpc, wstatus, g_isActive, peerOpen, toSup, toPeer, sockErr, fSends>>

\* the connection handleNewConnection is working on
CurFd == clientFds[activeClients]
CurPeer == fdTable[CurFd]

\* read(clientFds[activeClients], ...) finds nothing to return and blocks
handleNewConnection_block ==
  /\ pc = "hs_call"
  /\ toSup[CurPeer] = <<>> /\ peerOpen[CurPeer]
  /\ pc' = "hs_wait"
  /\ UNCHANGED <<g_isRunning, numInterfaces, spawnIdx, g_childProcesses, srv,
                 pathExists, serverFd, maxFd, masterSet, readSet, clientFds,
                 activeClients, idx, fdTable, exitStatus, result, sigints, hist>>
  /\ UNCHANGED peerVars

\* mutant: the increment of activeClients is forgotten
ActiveAfterAdmit_NoIncrement(n) == n

\* maxFd = std::max(maxFd, clientFds[activeClients]); ++activeClients;
MaxFdAfterAdmit(m, fd) == Max(m, fd)
ActiveAfterAdmit(n) == n + 1

\* the read returns (data or end of file), then the handshake is verified,
\* answered and the connection registered or closed
handleNewConnection_handshake ==
  /\ pc \in {"hs_call", "hs_wait"}
  /\ toSup[CurPeer] # <<>> \/ ~peerOpen[CurPeer]
  /\ LET p == CurPeer
         fd == CurFd
         buf == Flatten(toSup[p])
     IN
     /\ toSup' = [toSup EXCEPT ![p] = <<>>]
     /\ IF HandshakeMatches(buf)
        THEN IF ~peerOpen[p]
             THEN \* write() on a connection the peer has closed: SIGPIPE
                  /\ ProcessKilled
                  /\ hist' = hist
                  /\ UNCHANGED <<toPeer, maxFd, activeClients>>
             ELSE \E wrote \in BOOLEAN :
                  IF wrote
                  THEN /\ toPeer' = [toPeer EXCEPT ![p] = Append(@, StartReply)]
                       /\ hist' = [hist EXCEPT !.sent[p] = Append(@, StartReply)]
                       /\ maxFd' = MaxFdAfterAdmit(maxFd, fd)
                       /\ activeClients' = ActiveAfterAdmit(activeClients)
                       /\ pc' = "loop"
                       /\ UNCHANGED <<fdTable, conn, exitStatus, srv, backlog>>
                  ELSE /\ fdTable' = FdTableAfterClose(fd)
                       /\ conn' = ConnAfterClose(fd)
                       /\ hist' = HistAfterClose(hist, fd)
                       /\ pc' = "loop"
                       /\ UNCHANGED <<toPeer, maxFd, activeClients, exitStatus,
                                      srv, backlog>>
        ELSE /\ fdTable' = FdTableAfterClose(fd)
             /\ conn' = ConnAfterClose(fd)
             /\ hist' = [HistAfterClose(hist, fd) EXCEPT !.rejected = @ \cup {p}]
             /\ pc' = "loop"
             /\ UNCHANGED <<toPeer, maxFd, activeClients, exitStatus, srv, backlog>>
  /\ UNCHANGED <<g_isRunning, numInterfaces, spawnIdx, g_childProcesses,
                 pathExists, serverFd, masterSet, readSet, clientFds, idx,
                 result, sigints>>
  /\ UNCHANGED <<wpc, wstatus, g_isActive, peerOpen, sockErr, fSends>>

(* --------------------- supervisor: processMonitorData ------------------ *)
\* what read(clientFds[i], ...) returns: "data" (> 0), "error" (< 0), "eof" (0)
ReadKind(p) ==
  IF toSup[p] # <<>> THEN "data"
  ELSE IF sockErr[p] THEN "error"
  ELSE "eof"

\* else if (bytesRead == 0) { close(clientFds[i]); clientFds[i] = -1; }
ClosesSlot(kind) == kind = "eof"

\* mutant: the slot keeps the closed descriptor
SlotAfterPeerClose_Keep(fd) == fd

\* clientFds[i] = -1
SlotAfterPeerClose(fd) == -1

\* one iteration of the for loop of processMonitorData
processMonitorData ==
  /\ pc = "process"
  /\ IF idx < activeClients
     THEN LET fd == clientFds[idx] IN
          /\ idx' = idx + 1
          /\ UNCHANGED <<pc, readSet>>
          /\ IF fd \in readSet
             THEN LET p == fdTable[fd]
                      kind == ReadKind(p)
                  IN  /\ Readable(fd)
                      /\ toSup' = [toSup EXCEPT ![p] = IF kind = "data" THEN Tail(@) ELSE @]
                      /\ sockErr' = [sockErr EXCEPT ![p] = IF kind = "error" THEN FALSE ELSE @]
                      /\ IF ClosesSlot(kind)
                         THEN /\ fdTable' = FdTableAfterClose(fd)
                              /\ conn' = ConnAfterClose(fd)
                              /\ hist' = [HistAfterClose(hist, fd) EXCEPT
                                            !.eofFds = @ \cup {fd}]
                              /\ clientFds' = [clientFds EXCEPT
                                                 ![idx] = SlotAfterPeerClose(fd)]
                         ELSE UNCHANGED <<fdTable, conn, hist, clientFds>>
             ELSE UNCHANGED <<toSup, sockErr, fdTable, conn, hist, clientFds>>
     ELSE /\ pc' = "loop"
          /\ idx' = 0
          /\ readSet' = {}
          /\ UNCHANGED <<toSup, sockErr, fdTable, conn, hist, clientFds>>
  /\ UNCHANGED <<g_isRunning, numInterfaces, spawnIdx, g_childProcesses, srv,
                 pathExists, serverFd, maxFd, masterSet, activeClients,
                 exitStatus, result, sigints>>
  /\ UNCHANGED <<wpc, wstatus, g_isActive, peerOpen, backlog, toPeer, fSends>>

(* --------------------------- supervisor: cleanup ----------------------- *)
\* What a delivered SIGUSR1 does to worker w.  Before the worker has installed
\* its handler the default action ends the process; afterwards handleSignal
\* clears g_isActive, and a blocking call (connect, read) fails with EINTR.
HandlerInstalled(w) ==
  wpc[w] \in {"connect", "sendReady", "read_call", "read_wait", "loop",
              "report"}

\* connect() on a listening socket blocks while more than the backlog of
\* listen(serverFd, MAX_CONNECTIONS) connections wait for accept()
ConnectBlocks == srv = "listening" /\ pathExists /\ Len(backlog) > MAX_CONNECTIONS

Usr1Pc(w) ==
  CASE wpc[w] \in {"forked", "started"} -> "zombie"
    [] wpc[w] = "connect" /\ ConnectBlocks -> "zombie"  \* connect fails with EINTR
    [] wpc[w] = "read_wait" /\ toPeer[w] = <<>> /\ conn[w] # "supclosed"
         -> "zombie"                      \* read fails with EINTR: throw, exit
    [] OTHER -> wpc[w]

Usr1Active(w) == IF HandlerInstalled(w) THEN FALSE ELSE g_isActive[w]

\* how the worker ended if SIGUSR1 ended it: killed by the signal, or
\* EXIT_FAILURE after the exception that the interrupted call raised
Usr1Status(w) ==
  IF Usr1Pc(w) = wpc[w] THEN wstatus[w]
  ELSE IF HandlerInstalled(w) THEN "failure" ELSE "signal"

\* mutant: the loop is left at a handle whose process has already exited
KillLoopEnds_AtExited(i, handles) ==
  i > Len(handles) \/ wpc[handles[i]] \in {"zombie", "reaped"}

\* for (pid_t pid : processIds): the range is exhausted before position i
KillLoopEnds(i, handles) == i > Len(handles)

\* one iteration of: for (pid_t pid : processIds) kill(pid, SIGUSR1); a kill
\* that returns -1 is logged and the loop goes on
cleanup_kill ==
  /\ pc = "cleanup_kill"
  /\ IF ~KillLoopEnds(idx, g_childProcesses)
     THEN LET w == g_childProcesses[idx]
              exits == Usr1Pc(w) = "zombie" /\ wpc[w] # "zombie"
          IN  /\ idx' = idx + 1
              /\ hist' = [hist EXCEPT !.kills[w] = @ + 1]
              /\ wpc' = [wpc EXCEPT ![w] = Usr1Pc(w)]
              /\ wstatus' = [wstatus EXCEPT ![w] = Usr1Status(w)]
              /\ g_isActive' = [g_isActive EXCEPT ![w] = Usr1Active(w)]
              /\ peerOpen' = [peerOpen EXCEPT ![w] = IF exits THEN FALSE ELSE @]
              /\ sockErr' = IF exits /\ peerOpen[w]
                            THEN SockErrAfterPeerClose(w) ELSE sockErr
              /\ UNCHANGED pc
     ELSE /\ pc' = "wait_call"
          /\ idx' = 0
          /\ UNCHANGED <<hist, wpc, wstatus, g_isActive, peerOpen, sockErr>>
  /\ UNCHANGED <<g_isRunning, numInterfaces, spawnIdx, g_childProcesses, srv,
                 pathExists, serverFd, maxFd, masterSet, readSet, clientFds,
                 activeClients, fdTable, exitStatus, result, sigints>>
  /\ UNCHANGED <<conn, backlog, toSup, toPeer, fSends>>

\* mutant: after the wait loop the close loop over the slots is skipped
AfterWait_SkipSlots(ret) == IF ret > 0 THEN "wait_call" ELSE "cleanup_server"

\* mutant: the loop goes on whatever wait returns
AfterWait_NeverEnds(ret) == "wait_call"

\* while ((childPid = wait(&status)) > 0): the position after wait returned ret
AfterWait(ret) == IF ret > 0 THEN "wait_call" ELSE "cleanup_close"

\* wait(&status) is called: it returns a terminated child at once, fails with
\* ECHILD when no child is left, or blocks
cleanup_wait ==
  /\ pc = "wait_call"
  /\ IF Zombies # {}
     THEN \E w \in Zombies :
            /\ wpc' = [wpc EXCEPT ![w] = "reaped"]
            /\ wstatus' = [wstatus EXCEPT ![w] = "none"]
            /\ hist' = [hist EXCEPT !.reaps[w] = @ + 1]
            /\ pc' = AfterWait(w)
     ELSE /\ pc' = IF Children = {} THEN AfterWait(-1) ELSE "wait_blocked"
          /\ UNCHANGED <<wpc, wstatus, hist>>
  /\ idx' = IF pc' = "cleanup_close" THEN 0 ELSE idx
  /\ UNCHANGED <<g_isRunning, numInterfaces, spawnIdx, g_childProcesses, srv,
                 pathExists, serverFd, maxFd, masterSet, readSet, clientFds,
                 activeClients, fdTable, exitStatus, result, sigints>>
  /\ UNCHANGED <<g_isActive, conn, peerOpen, backlog, toSup, toPeer, sockErr, fSends>>

\* the blocked wait(&status) returns a child that has terminated
cleanup_waitReturn ==
  /\ pc = "wait_blocked"
  /\ \E w \in Zombies :
       /\ wpc' = [wpc EXCEPT ![w] = "reaped"]
       /\ wstatus' = [wstatus EXCEPT ![w] = "none"]
       /\ hist' = [hist EXCEPT !.reaps[w] = @ + 1]
       /\ pc' = AfterWait(w)
  /\ idx' = IF pc' = "cleanup_close" THEN 0 ELSE idx
  /\ UNCHANGED <<g_isRunning, numInterfaces, spawnIdx, g_childProcesses, srv,
                 pathExists, serverFd, maxFd, masterSet, readSet, clientFds,
                 activeClients, fdTable, exitStatus, result, sigints>>
  /\ UNCHANGED <<g_isActive, conn, peerOpen, backlog, toSup, toPeer, sockErr, fSends>>

\* one iteration of: for (i < activeClients) { FD_CLR(clientFds[i]); close(clientFds[i]); }
\* (FD_CLR and close of the value -1 change no descriptor of the model)
cleanup_close ==
  /\ pc = "cleanup_close"
  /\ IF idx < activeClients
     THEN LET fd == clientFds[idx] IN
          /\ masterSet' = masterSet \ {fd}
          /\ fdTable' = FdTableAfterClose(fd)
          /\ conn' = ConnAfterClose(fd)
          /\ hist' = HistAfterClose(hist, fd)
          /\ idx' = idx + 1
          /\ UNCHANGED pc
     ELSE /\ pc' = "cleanup_server"
          /\ idx' = 0
          /\ UNCHANGED <<masterSet, fdTable, conn, hist>>
  /\ UNCHANGED <<g_isRunning, numInterfaces, spawnIdx, g_childProcesses, srv,
                 pathExists, serverFd, maxFd, readSet, clientFds,
                 activeClients, exitStatus, result, sigints>>
  /\ UNCHANGED <<wpc, wstatus, g_isActive, peerOpen, backlog, toSup, toPeer, sockErr, fSends>>

\* close(serverFd): connections still waiting for accept() are reset
cleanup_server ==
  /\ pc = "cleanup_server"
  /\ srv' = "closed"
  /\ hist' = [hist EXCEPT !.srvCloses = @ + 1]
  /\ conn' = [p \in Peers |-> IF conn[p] = "pending" THEN "supclosed" ELSE conn[p]]
  /\ backlog' = <<>>
  /\ pc' = "cleanup_unlink"
  /\ UNCHANGED <<g_isRunning, numInterfaces, spawnIdx, g_childProcesses,
                 pathExists, serverFd, maxFd, masterSet, readSet, clientFds,
                 activeClients, idx, fdTable, exitStatus, result, sigints>>
  /\ UNCHANGED <<wpc, wstatus, g_isActive, peerOpen, toSup, toPeer, sockErr, fSends>>

\* unlink(SOCKET_PATH), which may fail, and the return from main; the kernel
\* closes whatever descriptor the process still holds
cleanup_unlink ==
  /\ pc = "cleanup_unlink"
  /\ \E ok \in BOOLEAN : pathExists' = IF ok THEN FALSE ELSE pathExists
  /\ pc' = "exited"
  /\ exitStatus' = result
  /\ fdTable' = [fd \in ClientFdRange |-> NoPeer]
  /\ conn' = [p \in Peers |-> IF conn[p] = "accepted" THEN "supclosed" ELSE conn[p]]
  /\ UNCHANGED <<g_isRunning, numInterfaces, spawnIdx, g_childProcesses, srv,
                 serverFd, maxFd, masterSet, readSet, clientFds, activeClients,
                 idx, result, sigints, hist>>
  /\ UNCHANGED <<wpc, wstatus, g_isActive, peerOpen, backlog, toSup, toPeer, sockErr, fSends>>

(* ----------------------- supervisor: handleSignal ---------------------- *)
\* if (signal == SIGINT) g_isRunning = false;
FlagAfterSignal(flag, signal) == IF signal = "SIGINT" THEN FALSE ELSE flag

\* the blocking call the supervisor is in has nothing to return yet
SelectSleeps == pc = "select_wait" /\ \A fd \in Watched : ~Readable(fd)
ReadSleeps == pc = "hs_wait" /\ toSup[CurPeer] = <<>> /\ peerOpen[CurPeer]
WaitSleeps == pc = "wait_blocked" /\ Zombies = {}

\* SIGINT is delivered to the supervisor (sa_flags = 0: no SA_RESTART).  The
\* handler runs; a blocking call that has nothing to return fails with EINTR:
\*   select -> continue;  the handshake read -> bytesRead < 0: close, return;
\*   wait -> returns -1 and the wait loop ends.
handleSignal ==
  /\ sigints < MaxSigint
  /\ pc \notin {"exited", "killed"}
  /\ sigints' = sigints + 1
  /\ g_isRunning' = FlagAfterSignal(g_isRunning, "SIGINT")
  /\ CASE SelectSleeps ->
            /\ pc' = AfterSelectError("EINTR")
            /\ idx' = IF pc' = "cleanup_kill" THEN 1 ELSE idx
            /\ hist' = IF pc' = "cleanup_kill"
                       THEN [hist EXCEPT !.cleanups = @ + 1, !.eintrs = @ + 1]
                       ELSE [hist EXCEPT !.eintrs = @ + 1]
            /\ readSet' = {}
            /\ UNCHANGED <<fdTable, conn>>
       [] ReadSleeps ->
            /\ fdTable' = FdTableAfterClose(CurFd)
            /\ conn' = ConnAfterClose(CurFd)
            /\ hist' = HistAfterClose(hist, CurFd)
            /\ pc' = "loop"
            /\ UNCHANGED <<idx, readSet>>
       [] WaitSleeps ->
            /\ pc' = AfterWait(-1)
            /\ idx' = IF pc' = "cleanup_close" THEN 0 ELSE idx
            /\ UNCHANGED <<fdTable, conn, hist, readSet>>
       [] OTHER -> UNCHANGED <<pc, idx, fdTable, conn, hist, readSet>>
  /\ UNCHANGED <<numInterfaces, spawnIdx, g_childProcesses, srv, pathExists,
                 serverFd, maxFd, masterSet, clientFds, activeClients,
                 exitStatus, result>>
  /\ UNCHANGED <<wpc, wstatus, g_isActive, peerOpen, backlog, toSup, toPeer, sockErr, fSends>>

(* ------------------------- worker: intfMonitor ------------------------- *)
supUnchanged ==
  UNCHANGED <<fSends, pc, g_isRunning, numInterfaces, spawnIdx, g_childProcesses, srv,
              pathExists, serverFd, maxFd, masterSet, readSet, clientFds,
              activeClients, idx, fdTable, exitStatus, result, sigints, hist>>

\* the worker process ends (return from main, exit, or killed by a signal):
\* its end of the connection is closed
WorkerEnds(w, status) ==
  /\ wpc' = [wpc EXCEPT ![w] = "zombie"]
  /\ wstatus' = [wstatus EXCEPT ![w] = status]
  /\ sockErr' = IF peerOpen[w] THEN SockErrAfterPeerClose(w) ELSE sockErr
  /\ peerOpen' = [peerOpen EXCEPT ![w] = FALSE]

\* the child of fork(): execlp("./intfMonitor", ...) succeeds, or fails and
\* the child calls exit(-1)
worker_exec(w) ==
  /\ wpc[w] = "forked"
  /\ \E ok \in BOOLEAN :
       IF ok
       THEN /\ wpc' = [wpc EXCEPT ![w] = "started"]
            /\ UNCHANGED <<wstatus, peerOpen, sockErr>>
       ELSE WorkerEnds(w, "failure")
  /\ UNCHANGED <<g_isActive, conn, backlog, toSup, toPeer>>
  /\ supUnchanged

\* sigaction(SIGUSR1, handleSignal); sigaction(SIGINT, SIG_IGN)
worker_sigaction(w) ==
  /\ wpc[w] = "started"
  /\ wpc' = [wpc EXCEPT ![w] = "connect"]
  /\ UNCHANGED <<wstatus, g_isActive, conn, peerOpen, backlog, toSup, toPeer, sockErr, fSends>>
  /\ supUnchanged

\* connect() succeeds only on a socket that listens; otherwise
\* establishConnection throws and main returns EXIT_FAILURE
ConnectSucceeds == srv = "listening" /\ pathExists

\* establishConnection()
worker_establishConnection(w) ==
  /\ wpc[w] = "connect"
  /\ ~ConnectBlocks
  /\ IF ConnectSucceeds
     THEN /\ conn' = [conn EXCEPT ![w] = "pending"]
          /\ backlog' = Append(backlog, w)
          /\ peerOpen' = [peerOpen EXCEPT ![w] = TRUE]
          /\ wpc' = [wpc EXCEPT ![w] = "sendReady"]
          /\ UNCHANGED <<wstatus, sockErr>>
     ELSE /\ WorkerEnds(w, "failure")
          /\ UNCHANGED <<conn, backlog>>
  /\ UNCHANGED <<g_isActive, toSup, toPeer>>
  /\ supUnchanged

\* write(socket, "ready_to_monitor", 16); SIGPIPE ends the worker when the
\* supervisor's end is closed
worker_sendReady(w) ==
  /\ wpc[w] = "sendReady"
  /\ IF conn[w] = "supclosed"
     THEN /\ WorkerEnds(w, "signal")
          /\ UNCHANGED toSup
     ELSE /\ toSup' = [toSup EXCEPT ![w] = Enqueue(@, ReadyMessage)]
          /\ wpc' = [wpc EXCEPT ![w] = "read_call"]
          /\ UNCHANGED <<wstatus, peerOpen, sockErr>>
  /\ UNCHANGED <<g_isActive, conn, backlog, toPeer>>
  /\ supUnchanged

\* read(socket, ...) finds nothing to return and blocks
worker_readBlock(w) ==
  /\ wpc[w] = "read_call"
  /\ toPeer[w] = <<>> /\ conn[w] # "supclosed"
  /\ wpc' = [wpc EXCEPT ![w] = "read_wait"]
  /\ UNCHANGED <<wstatus, g_isActive, conn, peerOpen, backlog, toSup, toPeer, sockErr, fSends>>
  /\ supUnchanged

\* the read returns the reply (or end of file); anything but
\* "start_monitoring" throws and main returns EXIT_FAILURE
worker_readStart(w) ==
  /\ wpc[w] \in {"read_call", "read_wait"}
  /\ toPeer[w] # <<>> \/ conn[w] = "supclosed"
  /\ LET buf == Flatten(toPeer[w]) IN
       /\ toPeer' = [toPeer EXCEPT ![w] = <<>>]
       /\ IF ReplyMismatch(buf)
          THEN /\ wpc' = [wpc EXCEPT ![w] = "zombie"]
               /\ wstatus' = [wstatus EXCEPT ![w] = "failure"]
               /\ peerOpen' = [peerOpen EXCEPT ![w] = FALSE]
          ELSE /\ wpc' = [wpc EXCEPT ![w] = "loop"]
               /\ UNCHANGED <<wstatus, peerOpen>>
  /\ UNCHANGED <<g_isActive, conn, backlog, toSup, sockErr>>
  /\ supUnchanged

\* while (g_isActive) ... ; close(socket); return EXIT_SUCCESS
worker_loop(w) ==
  /\ wpc[w] = "loop"
  /\ IF g_isActive[w]
     THEN /\ wpc' = [wpc EXCEPT ![w] = "report"]
          /\ UNCHANGED <<wstatus, peerOpen, sockErr>>
     ELSE WorkerEnds(w, "success")
  /\ UNCHANGED <<g_isActive, conn, backlog, toSup, toPeer>>
  /\ supUnchanged

\* monitorInterface(): gatherStats, which throws when restoreInterface fails
\* (main then returns EXIT_FAILURE); write(socket, buffer, strlen(buffer)),
\* where SIGPIPE ends the worker when the supervisor's end is closed; then
\* sleep(1), which returns after a second or when a signal arrives: either way
\* the worker is at the loop test next
worker_monitorInterface(w) ==
  /\ wpc[w] = "report"
  /\ \E thrown \in BOOLEAN :
       IF thrown \/ conn[w] = "supclosed"
       THEN /\ WorkerEnds(w, IF thrown THEN "failure" ELSE "signal")
            /\ UNCHANGED toSup
       ELSE /\ toSup' = [toSup EXCEPT ![w] = Enqueue(@, <<REPORT>>)]
            /\ wpc' = [wpc EXCEPT ![w] = "loop"]
            /\ UNCHANGED <<wstatus, peerOpen, sockErr>>
  /\ UNCHANGED <<g_isActive, conn, backlog, toPeer>>
  /\ supUnchanged

\* What a delivered SIGINT does to worker w: ignored once main has set
\* SIG_IGN for it, the default action (the process ends) before that
SigintPc(w) == IF HandlerInstalled(w) THEN wpc[w] ELSE "zombie"

\* SIGINT is delivered to a worker (Ctrl-C reaches the whole process group)
worker_sigint(w) ==
  /\ Running(w)
  /\ IF SigintPc(w) = wpc[w]
     THEN UNCHANGED <<wpc, wstatus, peerOpen, sockErr>>
     ELSE WorkerEnds(w, "signal")
  /\ UNCHANGED <<g_isActive, conn, backlog, toSup, toPeer>>
  /\ supUnchanged

(* ---------------------------- foreign peers ---------------------------- *)
\* a process that is not a spawned worker connects to the socket path
foreign_connect(f) ==
  /\ conn[f] = "none"
  /\ ConnectSucceeds /\ ~ConnectBlocks
  /\ conn' = [conn EXCEPT ![f] = "pending"]
  /\ backlog' = Append(backlog, f)
  /\ peerOpen' = [peerOpen EXCEPT ![f] = TRUE]
  /\ UNCHANGED <<wpc, wstatus, g_isActive, toSup, toPeer, sockErr>>
  /\ supUnchanged

\* it writes some bytes
foreign_send(f, m) ==
  /\ conn[f] \in {"pending", "accepted"}
  /\ peerOpen[f]
  /\ fSends[f] < MaxForeignSends
  /\ fSends' = [fSends EXCEPT ![f] = @ + 1]
  /\ toSup' = [toSup EXCEPT ![f] = Enqueue(@, m)]
  /\ UNCHANGED <<wpc, wstatus, g_isActive, conn, peerOpen, backlog, toPeer, sockErr>>
  /\ UNCHANGED <<pc, g_isRunning, numInterfaces, spawnIdx, g_childProcesses, srv,
                 pathExists, serverFd, maxFd, masterSet, readSet, clientFds,
                 activeClients, idx, fdTable, exitStatus, result, sigints, hist>>

\* it closes its end (or exits)
foreign_close(f) ==
  /\ peerOpen[f]
  /\ peerOpen' = [peerOpen EXCEPT ![f] = FALSE]
  /\ sockErr' = SockErrAfterPeerClose(f)
  /\ UNCHANGED <<wpc, wstatus, g_isActive, conn, backlog, toSup, toPeer>>
  /\ supUnchanged

(* ------------------------------ the system ----------------------------- *)
Supervisor ==
  \/ createServerSocket
  \/ startMonitoring
  \/ main_listen
  \/ main_loop
  \/ main_selectCall
  \/ main_selectReturn
  \/ handleNewConnection_accept
  \/ handleNewConnection_block
  \/ handleNewConnection_handshake
  \/ processMonitorData
  \/ cleanup_kill
  \/ cleanup_wait
  \/ cleanup_waitReturn
  \/ cleanup_close
  \/ cleanup_server
  \/ cleanup_unlink

Worker(w) ==
  \/ worker_exec(w)
  \/ worker_sigaction(w)
  \/ worker_establishConnection(w)
  \/ worker_sendReady(w)
  \/ worker_readBlock(w)
  \/ worker_readStart(w)
  \/ worker_loop(w)
  \/ worker_monitorInterface(w)

ForeignPeer(f) ==
  \/ foreign_connect(f)
  \/ \E m \in ForeignMsgs : foreign_send(f, m)
  \/ foreign_close(f)

Next ==
  \/ Supervisor
  \/ handleSignal
  \/ \E w \in Workers : Worker(w)
  \/ \E w \in Workers : worker_sigint(w)
  \/ \E f \in Foreign : ForeignPeer(f)

Spec == Init /\ [][Next]_vars

\* The supervisor and its workers alone, with no foreign peer connecting, and
\* each process scheduled: a process that can take a step eventually takes one.
\* Signals arrive or not.
NextOwn ==
  \/ Supervisor
  \/ handleSignal
  \/ \E w \in Workers : Worker(w)
  \/ \E w \in Workers : worker_sigint(w)

LiveSpec ==
  /\ Init
  /\ [][NextOwn]_vars
  /\ WF_vars(Supervisor)
  /\ \A w \in Workers : WF_vars(Worker(w))

(* ------------------------- states of the shutdown ---------------------- *)
Startup == pc \in {"createServerSocket", "startMonitoring", "listen"}
InLoop == pc \in {"loop", "select_call", "select_wait", "accept", "hs_call",
                  "hs_wait", "process"}
Terminating == pc = "cleanup_kill"
Draining == pc \in {"wait_call", "wait_blocked"}
Closing == pc \in {"cleanup_close", "cleanup_server"}
\* slots and listening socket closed; only the path is left to remove
Closed == pc = "cleanup_unlink" \/ (pc = "exited" /\ hist.cleanups > 0)

\* the workers fork() created, and those wait() has returned
Spawned == hist.forked
Reaped == {w \in Workers : hist.reaps[w] > 0}

Phase ==
  CASE Startup -> 0
    [] InLoop -> 1
    [] Terminating -> 2
    [] Draining -> 3
    [] Closing -> 4
    [] pc = "cleanup_unlink" -> 5
    [] OTHER -> 6

\* the registered slots whose connection is open, and the peer behind a slot
OpenSlots ==
  {i \in SlotRange : i < activeClients /\ clientFds[i] \in ClientFdRange
                     /\ fdTable[clientFds[i]] # NoPeer}
SlotPeer(i) == fdTable[clientFds[i]]

\* a step of the supervisor that ends handleNewConnection after its read
HandshakeEnds == pc \in {"hs_call", "hs_wait"} /\ pc' = "loop"

(* ------------------------------- claims -------------------------------- *)

\* C1: activeClients never exceeds MAX_CONNECTIONS and no slot index outside
\* 0..MAX_CONNECTIONS-1 is ever stored into.  (Fails: handleNewConnection
\* stores to clientFds[activeClients] without a capacity test.)
C1_CapacityInvariant ==
  /\ activeClients <= MAX_CONNECTIONS
  /\ \A i \in hist.stored : i >= 0 /\ i < MAX_CONNECTIONS

\* C2: when handleNewConnection has read exactly "ready_to_monitor" and the
\* reply write succeeds (the connection outlives the call), then exactly
\* "start_monitoring" was sent on that connection, the connection is registered
\* in the next slot, the slot count grew by one and maxFd covers it.
C2_HandshakeAcceptance ==
  [][ ( /\ HandshakeEnds
        /\ CString(Flatten(toSup[CurPeer])) = <<READY>>
        /\ fdTable'[CurFd] = CurPeer )
      => ( /\ toPeer'[CurPeer] = Append(toPeer[CurPeer], <<START, NUL>>)
           /\ hist'.sent[CurPeer] = <<(<<START, NUL>>)>>
           /\ conn'[CurPeer] = "accepted"
           /\ activeClients' = activeClients + 1
           /\ clientFds'[activeClients] = CurFd
           /\ CurFd \in masterSet'
           /\ maxFd' >= CurFd /\ maxFd' >= maxFd /\ maxFd' \in {maxFd, CurFd} )
    ]_vars

\* a worker was admitted: the reply is on its way and its slot is registered
C2_Witness ==
  \E w \in Workers :
    /\ hist.sent[w] = <<StartReply>>
    /\ toPeer[w] = <<StartReply>>
    /\ conn[w] = "accepted"
    /\ \E i \in OpenSlots : SlotPeer(i) = w

C4_DrainCompleteness ==
  Closed =>
    /\ Reaped = Spawned
    /\ \A w \in Workers : hist.reaps[w] <= 1
    /\ \A fd \in ClientFdRange : fdTable[fd] = NoPeer

\* C5: after a read of zero bytes on a registered connection its descriptor
\* is closed once, is no longer in masterSet, the slot is marked closed, and
\* the supervisor does not leave the loop on that account.  (Fails: the
\* descriptor stays in masterSet and the next select() fails with EBADF.)
C5_PeerCloseHandling ==
  /\ \A fd \in hist.eofFds : fd \notin masterSet
  /\ \A p \in Peers : hist.closes[p] <= 1
  /\ (hist.eofFds # {} /\ g_isRunning) => (InLoop \/ exitStatus = "killed")

\* C6: cleanup gets past its wait loop only when no unreaped child is left,
\* each child having been reaped once.  (Fails: SIGINT delivered while wait()
\* blocks makes it return -1, which ends the loop.)
C6_ReapAll ==
  (Closing \/ Closed) =>
    /\ Children = {}
    /\ \A w \in Spawned : hist.reaps[w] = 1

\* C7: however many times SIGINT is delivered, cleanup is entered at most
\* once, each worker is sent SIGUSR1 at most once, and no descriptor
\* (connection or listening socket) is closed twice.
C7_IdempotentDoubleSignal ==
  /\ hist.cleanups <= 1
  /\ \A w \in Workers : hist.kills[w] <= 1
  /\ \A p \in Peers : hist.closes[p] <= 1
  /\ hist.srvCloses <= 1
  /\ hist.stale = 0

\* SIGINT came twice and the supervisor has shut down, having closed a slot
\* that a peer had closed before and one that was still open
C7_Witness ==
  /\ sigints >= 2
  /\ pc = "exited"
  /\ hist.cleanups = 1
  /\ hist.srvCloses = 1
  /\ \E w \in Workers : hist.kills[w] = 1
  /\ hist.eofFds # {}
  /\ \E i \in SlotRange : i < activeClients /\ clientFds[i] \in ClientFdRange

\* C8: with every signalled worker exiting, a supervisor that has entered
\* Terminating reaches Closed; the phases are passed in order and the running
\* flag never turns from false to true.
C8_ShutdownLiveness ==
  /\ [][Phase' >= Phase /\ (~g_isRunning => ~g_isRunning')]_vars
  /\ (\A w \in Workers : (hist.kills[w] > 0) ~> ~Running(w))
       => (Terminating ~> Closed)

\* both workers were signalled and reaped, and cleanup has closed everything
C8_Witness ==
  /\ pc = "cleanup_unlink"
  /\ Cardinality(Spawned) = MaxInterfaces
  /\ \A w \in Spawned : hist.kills[w] = 1 /\ hist.reaps[w] = 1
  /\ ~g_isRunning

\* C9: after the flag has become false at most one more select() is begun;
\* a select() that fails with EINTR sends the loop back to its test and starts
\* no cleanup; and the test, with the flag true, leads to select() again.
C9_FlagObservation ==
  /\ [](hist.polls <= 1)
  /\ [][ (hist'.eintrs # hist.eintrs)
         => (pc' = "loop" /\ hist'.cleanups = hist.cleanups) ]_vars
  /\ [][ (pc = "loop" /\ g_isRunning /\ pc' # pc) => pc' = "select_call" ]_vars

\* one select() was begun after the flag fell, and one was interrupted
C9_Witness ==
  /\ hist.polls = 1
  /\ hist.eintrs >= 1
  /\ pc = "loop"

\* C10: while it runs the loop the supervisor is suspended only in select():
\* it never sits in the handshake read while a report waits unread on a
\* registered connection.  (Fails: the read of handleNewConnection blocks
\* until the new peer writes or closes.)
C10_SoleSuspensionPoint ==
  ~( /\ pc = "hs_wait"
     /\ toSup[CurPeer] = <<>> /\ peerOpen[CurPeer]
     /\ \E i \in OpenSlots : toSup[SlotPeer(i)] # <<>> )

\* the registered connections select() reports ready when it returns now
ReadySlots ==
  {i \in OpenSlots : clientFds[i] \in Watched /\ Readable(clientFds[i])}

\* the step in which select() returns and main dispatches
SelectReturns == pc = "select_wait" /\ pc' \in {"accept", "process"}

\* C11: every registered connection that select() reports ready is read in
\* the iteration in which it was reported, i.e. the iteration goes to
\* processMonitorData with that connection in readSet, also when the
\* listening socket is ready.  (Fails: main calls handleNewConnection or
\* processMonitorData, never both.)
C11_SameIterationService ==
  [][ SelectReturns
      => \A i \in ReadySlots : pc' = "process" /\ clientFds[i] \in readSet' ]_vars

\* the step of processMonitorData that calls read() on slot idx
ReadsSlot ==
  /\ pc = "process" /\ idx < activeClients /\ idx' = idx + 1
  /\ clientFds[idx] \in readSet

\* C12: a read on a registered connection that returns a negative length is
\* handled as a peer close: in that step the descriptor is closed, taken out
\* of masterSet and the slot marked closed, and the loop goes on.  (Fails:
\* processMonitorData has no branch for bytesRead < 0.)
C12_ReadErrorHandling ==
  [][ (ReadsSlot /\ ReadKind(fdTable[clientFds[idx]]) = "error")
      => ( /\ fdTable'[clientFds[idx]] = NoPeer
           /\ clientFds[idx] \notin masterSet'
           /\ clientFds'[idx] = -1
           /\ pc' = "process" ) ]_vars

\* the handles held in g_childProcesses
Handles == {g_childProcesses[k] : k \in 1..Len(g_childProcesses)}

\* the step in which fork() fails for one interface, and the step in which
\* the child's execlp() fails and the child exits
ForkFails == pc = "startMonitoring" /\ spawnIdx' = spawnIdx + 1 /\ wpc' = wpc
ExecFails(w) == wpc[w] = "forked" /\ wpc'[w] = "zombie" /\ wstatus'[w] = "failure"

\* C13: a spawn that fails adds no handle to the handle set and the
\* supervisor goes on with the remaining interfaces: after a failed fork()
\* the set is as before and startMonitoring continues, and a worker whose
\* image could not be executed is not in the set.  (Fails for the second:
\* the parent has pushed the pid before the child's execlp() fails.)
C13_SpawnFailureContainment ==
  [][ /\ ForkFails => (g_childProcesses' = g_childProcesses /\ pc' = "startMonitoring")
      /\ \A w \in Workers : ExecFails(w) => w \notin Handles' ]_vars

\* socket()/bind() or listen() has failed
StartupFailed == result = "failure" \/ exitStatus = "failure"

\* C14: when creating, binding or listening on the socket fails, the
\* supervisor never enters the loop and exits with failure status, and at
\* its exit every worker it spawned has been signalled and reaped.  (Fails
\* because of C6: the cleanup after a failed listen() stops waiting when
\* SIGINT interrupts wait().)
C14_FatalStartupFailure ==
  /\ StartupFailed => (~InLoop /\ srv # "listening")
  /\ (StartupFailed /\ pc = "exited") =>
       /\ exitStatus = "failure"
       /\ \A w \in Spawned : hist.kills[w] = 1 /\ hist.reaps[w] = 1

\* cleanup is in or past its wait loop
Waited == Draining \/ Closing \/ Closed

KillStep == pc = "cleanup_kill" /\ idx \in 1..Len(g_childProcesses) /\ idx' # idx

\* C16: in cleanup SIGUSR1 is sent once to every handle of the handle set
\* and to nothing else; each iteration of the loop, also one whose process
\* has already exited, goes on to the next handle; and after the last handle
\* cleanup goes on to wait().
C16_TerminateAll ==
  /\ [](\A w \in Workers : hist.kills[w] <= 1 /\ (hist.kills[w] = 1 => w \in Handles))
  /\ [](Waited => \A w \in Handles : hist.kills[w] = 1)
  /\ [][ KillStep
         => ( /\ idx' = idx + 1 /\ pc' = "cleanup_kill"
              /\ hist'.kills[g_childProcesses[idx]] = 1 ) ]_vars
  /\ [][ (pc = "cleanup_kill" /\ pc' # pc)
         => (idx = Len(g_childProcesses) + 1 /\ pc' = "wait_call") ]_vars

\* the first handle's worker had connected and exited before it was
\* signalled (its flag was never cleared), the second handle was signalled
\* all the same, and cleanup has passed the wait and close loops
C16_Witness ==
  /\ pc = "cleanup_server"
  /\ g_childProcesses = <<1, 2>>
  /\ hist.kills[1] = 1 /\ hist.kills[2] = 1
  /\ conn[1] # "none" /\ g_isActive[1] /\ wpc[1] = "reaped"
  /\ ~g_isActive[2]

\* the descriptors of the registered slots whose connection is open
ActiveFds == {clientFds[i] : i \in OpenSlots}

\* C17: masterSet holds, besides the listening socket, only descriptors of
\* open connections whose handshake has succeeded (registered slots); in
\* particular this is so whenever select() is called.  (Fails: FD_SET comes
\* before the handshake read and nothing removes a rejected or closed
\* descriptor.)
C17_WatchSetMembership ==
  /\ masterSet \ {serverFd} \subseteq ActiveFds
  /\ pc = "select_call" => masterSet \subseteq ({serverFd} \cup ActiveFds)

\* the supervisor is inside handleNewConnection
Admitting == pc \in {"accept", "hs_call", "hs_wait"}

\* a step of processMonitorData's loop over the slots
SlotStep == pc = "process" /\ idx < activeClients /\ idx' # idx

\* C18: when select() returns with the listening socket ready the iteration
\* does one handleNewConnection and then is over, with no registered
\* connection read; otherwise processMonitorData is given exactly the ready
\* descriptors, visits the slots in ascending order, one step per slot, reads
\* the slot it visits if and only if its descriptor is ready, and touches no
\* other connection.
C18_DispatchOrdering ==
  /\ [][ SelectReturns
         => ( /\ pc' = "accept" <=> (serverFd \in Watched /\ Readable(serverFd))
              /\ pc' = "process" => readSet' = {fd \in Watched : Readable(fd)}
              /\ idx' = 0 ) ]_vars
  /\ [][ (Admitting /\ ~Admitting')
         => ( /\ pc' \in {"loop", "killed"}
              /\ \A i \in OpenSlots : toSup'[SlotPeer(i)] = toSup[SlotPeer(i)] ) ]_vars
  /\ [][ (pc = "accept" /\ pc' # pc) => pc' \in {"hs_call", "loop", "killed"} ]_vars
  /\ [][ (pc \in {"hs_call", "hs_wait"} /\ pc' # pc /\ Admitting')
         => (pc = "hs_call" /\ pc' = "hs_wait") ]_vars
  /\ [][ SlotStep
         => ( /\ idx' = idx + 1 /\ pc' = "process"
              /\ IF clientFds[idx] \in readSet
                 THEN /\ \A p \in Peers \ {SlotPeer(idx)} :
                           toSup'[p] = toSup[p] /\ conn'[p] = conn[p]
                      /\ \/ Len(toSup'[SlotPeer(idx)]) < Len(toSup[SlotPeer(idx)])
                         \/ sockErr'[SlotPeer(idx)] # sockErr[SlotPeer(idx)]
                         \/ fdTable'[clientFds[idx]] = NoPeer
                 ELSE toSup' = toSup /\ fdTable' = fdTable /\ conn' = conn ) ]_vars

\* two registered connections were reported ready; slot 0 has been read and
\* slot 1 is next
C18_Witness ==
  /\ pc = "process" /\ idx = 1 /\ activeClients = 2
  /\ readSet = {clientFds[0], clientFds[1]}
  /\ OpenSlots = {0, 1}
  /\ toSup[SlotPeer(0)] = <<>>
  /\ toSup[SlotPeer(1)] # <<>>

\* positions of a worker: in the handshake read, in the reporting loop, ended
InRead(w) == wpc[w] \in {"read_call", "read_wait"}
Reporting(w) == wpc[w] \in {"loop", "report"}
Ended(w) == wpc[w] \in {"zombie", "reaped"}

\* C19: a worker's first write is "ready_to_monitor", made once, right
\* after connecting; it writes nothing else outside its reporting loop; it
\* enters the reporting loop only from the handshake read and only when that
\* read returned "start_monitoring"; when the read returns anything else,
\* nothing, or fails, the worker ends with EXIT_FAILURE having written no
\* report; and a worker that has ended writes nothing.
C19_WorkerProtocolOrder ==
  [][ \A w \in Workers :
        /\ (wpc[w] = "sendReady" /\ wpc'[w] = "read_call")
             => (toSup[w] = <<>> /\ toSup'[w] = <<ReadyMessage>>)
        /\ (wpc'[w] = "sendReady" /\ wpc[w] # "sendReady") => wpc[w] = "connect"
        /\ Len(toSup'[w]) > Len(toSup[w]) => wpc[w] \in {"sendReady", "report"}
        /\ (Reporting(w)' /\ ~Reporting(w))
             => (InRead(w) /\ CString(Flatten(toPeer[w])) = <<START>>)
        /\ (InRead(w) /\ ~InRead(w)' /\ CString(Flatten(toPeer[w])) # <<START>>)
             => ( /\ wpc'[w] = "zombie" /\ wstatus'[w] = "failure"
                  /\ toSup'[w] = toSup[w] )
        /\ Ended(w) => (Ended(w)' /\ Len(toSup'[w]) <= Len(toSup[w]))
    ]_vars

\* one worker read end of file instead of the reply (the supervisor's write
\* had failed) and ended with failure, unanswered; another is reporting after
\* the reply
C19_Witness ==
  /\ hist.cleanups = 0
  /\ \E w \in Workers :
       /\ wpc[w] = "zombie" /\ wstatus[w] = "failure"
       /\ conn[w] = "supclosed" /\ hist.sent[w] = <<>>
  /\ \E w \in Workers :
       /\ wpc[w] = "report" /\ hist.sent[w] = <<StartReply>>

\* C20: a worker to which the supervisor has sent SIGUSR1 eventually ends,
\* wherever it was; in its reporting loop a cleared flag is never set again,
\* the loop test with the flag cleared ends the worker, and each pass sends
\* one report, so at most one report follows the signal; and SIGINT changes
\* nothing in a worker that has installed its handlers.  (Fails in the first
\* part: signalled between sigaction() and its blocking read(), the worker
\* waits in read() for a reply the supervisor, itself in wait(), never sends.)
C20_WorkerStopOnSignal ==
  /\ \A w \in Workers : (hist.kills[w] > 0) ~> ~Running(w)
  /\ [][ \A w \in Workers :
           /\ ~g_isActive[w] => ~g_isActive'[w]
           /\ (wpc[w] = "loop" /\ ~g_isActive[w] /\ wpc'[w] # wpc[w])
                => wpc'[w] = "zombie"
           /\ (wpc[w] = "report" /\ wpc'[w] # wpc[w])
                => wpc'[w] \in {"loop", "zombie"}
           /\ (worker_sigint(w) /\ HandlerInstalled(w))
                => UNCHANGED <<wpc, wstatus, g_isActive, peerOpen>>
       ]_vars

\* the supervisor has left the loop and started cleanup
EnteredTerminating == hist.cleanups > 0

\* C21: once SIGINT has cleared the running flag while the supervisor is in
\* its loop, wherever in the loop, the supervisor eventually enters
\* Terminating.  (Fails: a signal that arrives after the loop test and before
\* select() blocks is seen only when select() returns, and with no descriptor
\* ever ready select() never returns.)
C21_TerminationNotLost ==
  (InLoop /\ ~g_isRunning) ~> EnteredTerminating

\* no signal has been delivered to the supervisor, no call of it has failed
\* and it has closed no connection
NoTrouble ==
  /\ sigints = 0
  /\ result = "success" /\ exitStatus \in {"none", "success"}
  /\ \A p \in Peers : hist.closes[p] = 0
  /\ \A i \in SlotRange : clientFds[i] # -1

\* worker w has been answered "start_monitoring" and holds a registered slot
Registered(w) == hist.sent[w] # <<>>

\* C22: no worker calls connect() before the supervisor's socket listens
\* (every connect() a worker makes succeeds), and, as long as nothing fails
\* and no signal arrives, every worker that has started and set up its
\* handlers gets connected, answered and registered.  (Fails: the workers
\* are spawned before listen(), so a worker can reach connect() first, is
\* refused and exits.)
C22_RegistrationUnderStartup ==
  /\ [][ \A w \in Workers : worker_establishConnection(w) => ConnectSucceeds ]_vars
  /\ ([]NoTrouble) => \A w \in Workers : (wpc[w] = "connect") ~> Registered(w)

\* select() has failed with an error other than EINTR
HardError == hist.hardErrors > 0

\* C23: after select() has failed with an error other than EINTR the
\* supervisor is out of the loop and cleanup is entered once; and when the
\* supervisor has exited after such a failure, every worker fork() created
\* has been sent SIGUSR1 once and reaped once, none is unreaped or running,
\* every registered slot and the listening socket are closed (the socket
\* once), so that only the removal of the path is behind it.  (Fails:
\* SIGINT delivered while wait() blocks ends the wait loop, and the
\* supervisor exits with a worker still running.)
C23_PollHardError ==
  /\ HardError => (~InLoop /\ hist.cleanups = 1 /\ hist.hardErrors = 1)
  /\ (HardError /\ pc = "exited") =>
       /\ \A w \in Spawned : hist.kills[w] = 1 /\ hist.reaps[w] = 1
       /\ Children = {}
       /\ \A w \in Workers : ~Running(w)
       /\ OpenSlots = {}
       /\ srv = "closed" /\ hist.srvCloses = 1

=============================================================================
